---------------------------- MODULE Spec2Model ----------------------------
(***************************************************************************)
(* Model of the ecobot pipeline: the synthetic data generator              *)
(* (generator.py), the regression trainer (trainer.py) and the inference   *)
(* and forecast engine (predict_user.py).                                  *)
(*                                                                         *)
(* Numbers are exact rationals (a sign, an arbitrarily large numerator     *)
(* kept as base-10000 limbs, and a list of small divisors), because TLC's  *)
(* integers are 32 bits wide and the products the code forms are not.      *)
(* The floats of the inference engine are the rationals that binary64      *)
(* holds, every operation rounded as the hardware rounds it: int(no*100)   *)
(* of f2 and round(efficiency, 4) of the generator depend on the last bit. *)
(***************************************************************************)
EXTENDS Integers, Sequences, FiniteSets, TLC

(***************************************************************************)
(* Unbounded naturals: little-endian sequences of limbs, <<>> is zero, the *)
(* last limb is never zero.                                                *)
(***************************************************************************)
Base == 100 * 100

RECURSIVE BigOf(_)
BigOf(n) == IF n = 0 THEN <<>> ELSE <<n % Base>> \o BigOf(n \div Base)

RECURSIVE Strip(_)
Strip(a) ==
    IF a = <<>> THEN a
    ELSE IF a[Len(a)] = 0 THEN Strip(SubSeq(a, 1, Len(a) - 1)) ELSE a

RECURSIVE BigMulC(_, _, _)
BigMulC(a, m, c) ==
    IF a = <<>> THEN BigOf(c)
    ELSE LET v == Head(a) * m + c
         IN  <<v % Base>> \o BigMulC(Tail(a), m, v \div Base)

\* a * m for a small natural m (m < 200000)
BigMul(a, m) == IF m = 0 THEN <<>> ELSE BigMulC(a, m, 0)

RECURSIVE BigMulAll(_, _)
BigMulAll(a, ms) ==
    IF ms = <<>> THEN a ELSE BigMulAll(BigMul(a, Head(ms)), Tail(ms))

RECURSIVE BigDivAt(_, _, _, _)
BigDivAt(a, d, i, r) ==
    IF i = 0 THEN <<>>
    ELSE LET v == r * Base + a[i]
         IN  BigDivAt(a, d, i - 1, v % d) \o <<v \div d>>

\* floor(a / d) for a small positive d (d < 200000)
BigDiv(a, d) == Strip(BigDivAt(a, d, Len(a), 0))

RECURSIVE BigDivAll(_, _)
BigDivAll(a, ds) ==
    IF ds = <<>> THEN a ELSE BigDivAll(BigDiv(a, Head(ds)), Tail(ds))

RECURSIVE BigAddC(_, _, _)
BigAddC(a, b, c) ==
    IF a = <<>> /\ b = <<>> THEN BigOf(c)
    ELSE LET x == IF a = <<>> THEN 0 ELSE Head(a)
             y == IF b = <<>> THEN 0 ELSE Head(b)
             v == x + y + c
         IN  <<v % Base>> \o BigAddC(IF a = <<>> THEN a ELSE Tail(a),
                                     IF b = <<>> THEN b ELSE Tail(b),
                                     v \div Base)

BigAdd(a, b) == BigAddC(a, b, 0)

RECURSIVE BigSubC(_, _, _)
BigSubC(a, b, c) ==
    IF a = <<>> THEN <<>>
    ELSE LET y == IF b = <<>> THEN 0 ELSE Head(b)
             v == Head(a) - y - c
         IN  <<IF v < 0 THEN v + Base ELSE v>>
             \o BigSubC(Tail(a), IF b = <<>> THEN b ELSE Tail(b),
                        IF v < 0 THEN 1 ELSE 0)

\* a - b for a >= b
BigSub(a, b) == Strip(BigSubC(a, b, 0))

RECURSIVE BigCmpAt(_, _, _)
BigCmpAt(a, b, i) ==
    IF i = 0 THEN 0
    ELSE IF a[i] < b[i] THEN -1
    ELSE IF a[i] > b[i] THEN 1
    ELSE BigCmpAt(a, b, i - 1)

\* -1, 0 or 1 as a < b, a = b, a > b
BigCmp(a, b) ==
    IF Len(a) < Len(b) THEN -1
    ELSE IF Len(a) > Len(b) THEN 1
    ELSE BigCmpAt(a, b, Len(a))

RECURSIVE BigMulBig(_, _)
BigMulBig(a, b) ==
    IF b = <<>> \/ a = <<>> THEN <<>>
    ELSE BigAdd(BigMul(a, Head(b)),
                LET t == BigMulBig(a, Tail(b))
                IN  IF t = <<>> THEN t ELSE <<0>> \o t)

(***************************************************************************)
(* Exact rationals standing for the floats of the code:                    *)
(* [neg, num, den] is (-1)^neg * num / (product of den).                   *)
(***************************************************************************)
AbsInt(n) == IF n < 0 THEN -n ELSE n

Q(neg, num, den) == [neg |-> neg /\ num # <<>>, num |-> num, den |-> den]

\* the integer n
QInt(n) == Q(n < 0, BigOf(AbsInt(n)), <<>>)

\* the decimal literal n / d
QDec(n, d) == Q(n < 0, BigOf(AbsInt(n)), <<d>>)

QNeg(a) == Q(~a.neg, a.num, a.den)

QAbs(a) == Q(FALSE, a.num, a.den)

QMul(a, b) == Q(a.neg # b.neg, BigMulBig(a.num, b.num), a.den \o b.den)

\* numerators of a and b over the common denominator a.den \o b.den
NumOver(a, b) == IF a.den = b.den THEN a.num ELSE BigMulAll(a.num, b.den)

DenOver(a, b) == IF a.den = b.den THEN a.den ELSE a.den \o b.den

QAdd(a, b) ==
    LET x == NumOver(a, b)
        y == NumOver(b, a)
        d == DenOver(a, b)
    IN  IF a.neg = b.neg THEN Q(a.neg, BigAdd(x, y), d)
        ELSE IF BigCmp(x, y) >= 0 THEN Q(a.neg, BigSub(x, y), d)
        ELSE Q(b.neg, BigSub(y, x), d)

QSub(a, b) == QAdd(a, QNeg(b))

\* -1, 0 or 1 as a < b, a = b, a > b
QCmp(a, b) ==
    LET d == QSub(a, b)
    IN  IF d.num = <<>> THEN 0 ELSE IF d.neg THEN -1 ELSE 1

QLe(a, b) == QCmp(a, b) <= 0

QLt(a, b) == QCmp(a, b) < 0

QEq(a, b) == QCmp(a, b) = 0

QMax(a, b) == IF QLe(b, a) THEN a ELSE b

QMin(a, b) == IF QLe(a, b) THEN a ELSE b

\* a / n for a small positive integer n
QDivInt(a, n) == Q(a.neg, a.num, a.den \o <<n>>)

\* int(a): truncation toward zero, as a rational with no divisor
QTrunc(a) == Q(a.neg, BigDivAll(a.num, a.den), <<>>)

BigOdd(a) == a # <<>> /\ a[1] % 2 = 1

\* f is the whole part of a number and odd says that the rest is a half or
\* more, exact that it is a half and no more: the nearest integer, the even
\* one on a tie
RintHalf(f, odd, exact) ==
    IF odd /\ (~exact \/ BigOdd(f)) THEN BigAdd(f, <<1>>) ELSE f

\* t is floor(2 * a)
QRintAt(a, t) ==
    Q(a.neg,
      RintHalf(BigDiv(t, 2), BigOdd(t),
               BigCmp(BigMulAll(t, a.den), BigMul(a.num, 2)) = 0),
      <<>>)

\* the integer nearest to a, the even one on a tie
QRint(a) == QRintAt(a, BigDivAll(BigMul(a.num, 2), a.den))

\* the integer k over s
QOver(k, s) == Q(k.neg, k.num, <<s>>)

\* round(a, n) with s = 10^n: the nearest multiple of 1/s, the even one on
\* a tie
QRoundTo(a, s) == QOver(QRint(Q(a.neg, BigMul(a.num, s), a.den)), s)

(***************************************************************************)
(* IEEE 754 binary64, the float of Python.  A float is the rational it     *)
(* stands for, with a power of two as divisor (kept as a list of powers of *)
(* two); an integer is a float with no divisor.  Every operation is the    *)
(* exact operation followed by rounding to 53 significant bits, ties to    *)
(* even.  The values of the engine are far from overflow and underflow.    *)
(***************************************************************************)
\* powers of two whose product is 2^s
RECURSIVE Pow2List(_)
Pow2List(s) ==
    IF s = 0 THEN <<>>
    ELSE IF s >= 17 THEN <<2^17>> \o Pow2List(s - 17)
    ELSE <<2^s>>

RECURSIVE SmallBitLen(_)
SmallBitLen(n) == IF n = 0 THEN 0 ELSE 1 + SmallBitLen(n \div 2)

\* number of binary digits of the natural a
RECURSIVE BitLen(_)
BitLen(a) ==
    IF a = <<>> THEN 0
    ELSE IF Len(a) = 1 THEN SmallBitLen(a[1])
    ELSE IF Len(a) = 2 THEN SmallBitLen(a[2] * Base + a[1])
    ELSE 17 + BitLen(BigDiv(a, 2^17))

\* s for a divisor list whose product is 2^s
RECURSIVE DenBits(_)
DenBits(den) ==
    IF den = <<>> THEN 0
    ELSE IF Head(den) = 2^17 THEN 17 + DenBits(Tail(den))
    ELSE SmallBitLen(Head(den)) - 1 + DenBits(Tail(den))

\* a divided by the small d: the remainder, then the limbs of the quotient
RECURSIVE BigDivRemAt(_, _, _, _)
BigDivRemAt(a, d, i, r) ==
    IF i = 0 THEN <<r>>
    ELSE LET v == r * Base + a[i]
         IN  BigDivRemAt(a, d, i - 1, v % d) \o <<v \div d>>

\* floor(p / product of ds), and whether anything was cut off; r is the
\* remainder and the quotient of p by the first of ds
RECURSIVE ShiftRight(_, _, _)
RECURSIVE ShiftRightBy(_, _, _)
ShiftRightBy(r, ds, sticky) ==
    ShiftRight(Strip(Tail(r)), Tail(ds), sticky \/ r[1] # 0)

ShiftRight(p, ds, sticky) ==
    IF ds = <<>> THEN [q |-> p, sticky |-> sticky]
    ELSE ShiftRightBy(BigDivRemAt(p, Head(ds), Len(p), 0), ds, sticky)

RECURSIVE SmallTwos(_)
SmallTwos(n) == IF n % 2 = 1 THEN 0 ELSE 1 + SmallTwos(n \div 2)

\* the number m * 2^e for e < 0, in lowest terms; r is the remainder and
\* the quotient of m by 2^17, c the number of factors two to cancel
RECURSIVE Lowest(_, _, _)
RECURSIVE LowestBy(_, _, _, _)
RECURSIVE LowestCancel(_, _, _, _, _)
LowestCancel(neg, m, e, r, c) ==
    IF c = 0 THEN Q(neg, m, Pow2List(0 - e))
    ELSE Lowest(neg, IF c = 17 THEN Strip(Tail(r)) ELSE BigDiv(m, 2^c), e + c)

LowestBy(neg, m, e, r) ==
    LowestCancel(neg, m, e, r,
                 IF r[1] = 0 THEN (IF 17 < 0 - e THEN 17 ELSE 0 - e)
                 ELSE IF SmallTwos(r[1]) < 0 - e THEN SmallTwos(r[1])
                 ELSE 0 - e)

Lowest(neg, m, e) ==
    IF m = <<>> THEN Q(FALSE, m, <<>>)
    ELSE IF e = 0 THEN Q(neg, m, <<>>)
    ELSE LowestBy(neg, m, e, BigDivRemAt(m, 2^17, Len(m), 0))

\* the number m * 2^e
MkFloat(neg, m, e) ==
    IF e >= 0 THEN Q(neg, BigMulAll(m, Pow2List(e)), <<>>)
    ELSE Lowest(neg, m, e)

\* t.q holds 54 bits and m its first 53: m, or m + 1 when the bits cut off
\* are more than half a unit, or exactly half and m is odd (ties to even)
RoundTies(t, m) ==
    IF t.q[1] % 2 = 1 /\ (t.sticky \/ m[1] % 2 = 1) THEN BigAdd(m, <<1>>)
    ELSE m

RoundHalf(t) == RoundTies(t, BigDiv(t.q, 2))

\* the float nearest to p * 2^e, p having s bits more than 53
RoundBitsBy(neg, p, e, sticky, s) ==
    MkFloat(neg,
            IF s <= 0 THEN p
            ELSE RoundHalf(ShiftRight(p, Pow2List(s - 1), sticky)),
            IF s <= 0 THEN e ELSE e + s)

\* the float nearest to p * 2^e (a little more than that if sticky, in
\* which case p has more than 53 bits)
RoundBits(neg, p, e, sticky) == RoundBitsBy(neg, p, e, sticky, BitLen(p) - 53)

\* a * b
FMul(a, b) ==
    RoundBits(a.neg # b.neg, BigMulBig(a.num, b.num),
              0 - DenBits(a.den) - DenBits(b.den), FALSE)

\* x * 2^-d with the sign aneg plus y * 2^-d with the sign bneg
FAddAligned(aneg, x, bneg, y, d) ==
    RoundBits(IF aneg = bneg \/ BigCmp(x, y) >= 0 THEN aneg ELSE bneg,
              IF aneg = bneg THEN BigAdd(x, y)
              ELSE IF BigCmp(x, y) >= 0 THEN BigSub(x, y)
              ELSE BigSub(y, x),
              0 - d, FALSE)

\* a + b, the divisors of a and b being 2^da and 2^db
FAddAt(a, b, da, db) ==
    FAddAligned(a.neg,
                BigMulAll(a.num, Pow2List(IF da > db THEN 0 ELSE db - da)),
                b.neg,
                BigMulAll(b.num, Pow2List(IF da > db THEN da - db ELSE 0)),
                IF da > db THEN da ELSE db)

\* a + b
FAdd(a, b) == FAddAt(a, b, DenBits(a.den), DenBits(b.den))

\* a - b
FSub(a, b) == FAdd(a, QNeg(b))

\* the float nearest to t.q * 2^e, a little more if t.sticky
FDivIntFrom(neg, t, e) == RoundBits(neg, t.q, e, t.sticky)

\* a / n, a.num being first multiplied by 2^g to leave a quotient of at
\* least 54 bits
FDivIntBy(a, n, g) ==
    FDivIntFrom(a.neg, ShiftRight(BigMulAll(a.num, Pow2List(g)), <<n>>, FALSE),
                0 - DenBits(a.den) - g)

\* a / n for a small positive integer n
FDivInt(a, n) ==
    FDivIntBy(a, n, IF 54 + SmallBitLen(n) - BitLen(a.num) > 0
                    THEN 54 + SmallBitLen(n) - BitLen(a.num)
                    ELSE 0)

\* the float literal n / d
FDec(n, d) == FDivInt(QInt(n), d)

(***************************************************************************)
(* predict_user.py: the inference and savings engine                       *)
(***************************************************************************)
KnownFuels == {"coal", "oil", "natural_gas"}

\* every fuel type a caller or a sample row may name; "biomass" stands for
\* any name that is none of the three known ones
FuelNames == KnownFuels \cup {"biomass"}

\* DictGet with coal's entry for a key the dict lacks
DictGetCoal(map, key, default) == IF key \in DOMAIN map THEN map[key] ELSE map.coal

\* dict.get(key, default) on a dict keyed by the three known fuels
DictGet(map, key, default) == IF key \in DOMAIN map THEN map[key] ELSE default

base_eff_map == [coal |-> FDec(38, 100), oil |-> FDec(42, 100),
                 natural_gas |-> FDec(50, 100)]

fuel_per_kwh_map == [coal |-> FDec(35, 100), oil |-> FDec(25, 100),
                     natural_gas |-> FDec(20, 100)]

fuel_cost_map == [coal |-> QInt(6000), oil |-> QInt(700),
                  natural_gas |-> QInt(300)]

co2_factor_map == [coal |-> FDec(242, 100), oil |-> FDec(296, 100),
                   natural_gas |-> FDec(20, 10)]

\* the defaults of fuel_per_kwh_map.get and co2_factor_map.get
fuel_per_kwh_default == FDec(3, 10)

co2_factor_default == FDec(25, 10)

\* temperatures, humidities and pressures of a forecast day are either a
\* number or None (a JSON null of the weather supplier)
Num(q) == [none |-> FALSE, q |-> q]

NoneVal == [none |-> TRUE, q |-> QInt(0)]

\* the float literals of calc_recommended_efficiency
base_eff_default == FDec(40, 100)

temp_slope == FDec(2, 1000)

humidity_slope == FDec(1, 1000)

pressure_slope == FDec(5, 10000)

pressure_reference == FDec(101325, 100)

\* calc_recommended_efficiency with the reference pressure 1013 hPa
calc_recommended_efficiency_1013(fuel_type, temp_C, humidity, pressure_hPa) ==
    LET base_eff == DictGet(base_eff_map, fuel_type, base_eff_default)
        temp_factor ==
            FSub(QInt(1), FMul(temp_slope, FSub(temp_C, QInt(25))))
        humidity_factor ==
            FSub(QInt(1), FMul(humidity_slope, FSub(humidity, QInt(40))))
        pressure_factor ==
            FAdd(QInt(1), FMul(pressure_slope,
                               FSub(pressure_hPa, QInt(1013))))
    IN  FMul(FMul(FMul(base_eff, temp_factor), humidity_factor),
             pressure_factor)

calc_recommended_efficiency(fuel_type, temp_C, humidity, pressure_hPa) ==
    LET base_eff == DictGet(base_eff_map, fuel_type, base_eff_default)
        temp_factor ==
            FSub(QInt(1), FMul(temp_slope, FSub(temp_C, QInt(25))))
        humidity_factor ==
            FSub(QInt(1), FMul(humidity_slope, FSub(humidity, QInt(40))))
        pressure_factor ==
            FAdd(QInt(1), FMul(pressure_slope,
                               FSub(pressure_hPa, pressure_reference)))
    IN  FMul(FMul(FMul(base_eff, temp_factor), humidity_factor),
             pressure_factor)

\* The model store holds, per fuel type, no file, a file that a dump has
\* opened and not finished writing, or a complete fitted regressor (known
\* by the trainer run that fitted it and the sample rows it was fitted on).
AbsentFile == [kind |-> "absent", run |-> 0, rows |-> {}]

PartialFile == [kind |-> "partial", run |-> 0, rows |-> {}]

ModelFile(run, rows) == [kind |-> "model", run |-> run, rows |-> rows]

\* joblib.load: raises unless the file holds a complete model
LoadRaises(file) == file.kind # "model"

\* the factor of DummyModel.predict
dummy_factor == FDec(7, 10)

\* DummyPredict with the factor 0.07
DummyPredictSmall(input_data) ==
    FMul(QInt(input_data.max_capacity_mw), FDec(7, 100))

\* DummyModel.predict
DummyPredict(input_data) == FMul(QInt(input_data.max_capacity_mw), dummy_factor)

NoOutputs == [recommended_generation_mw |-> NoneVal,
              fuel_used_recommended |-> NoneVal,
              fuel_saved |-> NoneVal,
              cost_saved |-> NoneVal,
              co2_saved_tonnes |-> NoneVal,
              recommended_efficiency |-> NoneVal]

\* predict_outputs with the recommended generation taken from the predicted
\* current generation
predict_outputs_from_current(input_data, file, y) ==
    LET fuel_type == input_data.fuel_type
        dummy == LoadRaises(file)
        current_generation_mw ==
            IF dummy THEN DummyPredict(input_data) ELSE y
        max_capacity == QInt(input_data.max_capacity_mw)
        run_hours == QInt(input_data.run_hours)
        fuel_used_current == QInt(input_data.fuel_used_current)
        recommended_efficiency ==
            calc_recommended_efficiency(fuel_type, input_data.temp_C.q,
                                        input_data.humidity.q,
                                        input_data.pressure_hPa.q)
        recommended_generation_mw ==
            FMul(current_generation_mw, recommended_efficiency)
        recommended_energy_kwh ==
            FMul(FMul(recommended_generation_mw, QInt(1000)), run_hours)
        fuel_per_kwh == DictGet(fuel_per_kwh_map, fuel_type, fuel_per_kwh_default)
        fuel_used_recommended ==
            FDivInt(FMul(recommended_energy_kwh, fuel_per_kwh), 1000)
        fuel_saved == FSub(fuel_used_current, fuel_used_recommended)
        fuel_cost_per_unit == DictGet(fuel_cost_map, fuel_type, QInt(500))
        cost_saved == FMul(fuel_saved, fuel_cost_per_unit)
        co2_factor == DictGet(co2_factor_map, fuel_type, co2_factor_default)
        co2_saved_tonnes == FMul(fuel_saved, co2_factor)
    IN  IF input_data.temp_C.none \/ input_data.humidity.none
           \/ input_data.pressure_hPa.none
        THEN \* arithmetic on None: TypeError (or the regressor rejects the row)
             [raised |-> TRUE, dummy |-> dummy,
              current_generation_mw |-> NoneVal, outputs |-> NoOutputs]
        ELSE [raised |-> FALSE, dummy |-> dummy,
              current_generation_mw |-> Num(current_generation_mw),
              outputs |->
                [recommended_generation_mw |-> Num(recommended_generation_mw),
                 fuel_used_recommended |-> Num(fuel_used_recommended),
                 fuel_saved |-> Num(fuel_saved),
                 cost_saved |-> Num(cost_saved),
                 co2_saved_tonnes |-> Num(co2_saved_tonnes),
                 recommended_efficiency |-> Num(recommended_efficiency)]]

\* predict_outputs(input_data), reading the model file `file`; y is what the
\* loaded regressor's predict returns for the feature row (the regressor is
\* library code: its value is an input of the model).  The result says
\* whether the call raised, which predictor was used, the predicted current
\* generation and the outputs dict.
predict_outputs(input_data, file, y) ==
    LET fuel_type == input_data.fuel_type
        dummy == LoadRaises(file)
        current_generation_mw ==
            IF dummy THEN DummyPredict(input_data) ELSE y
        max_capacity == QInt(input_data.max_capacity_mw)
        run_hours == QInt(input_data.run_hours)
        fuel_used_current == QInt(input_data.fuel_used_current)
        recommended_efficiency ==
            calc_recommended_efficiency(fuel_type, input_data.temp_C.q,
                                        input_data.humidity.q,
                                        input_data.pressure_hPa.q)
        recommended_generation_mw == FMul(max_capacity, recommended_efficiency)
        recommended_energy_kwh ==
            FMul(FMul(recommended_generation_mw, QInt(1000)), run_hours)
        fuel_per_kwh == DictGet(fuel_per_kwh_map, fuel_type, fuel_per_kwh_default)
        fuel_used_recommended ==
            FDivInt(FMul(recommended_energy_kwh, fuel_per_kwh), 1000)
        fuel_saved == FSub(fuel_used_current, fuel_used_recommended)
        fuel_cost_per_unit == DictGet(fuel_cost_map, fuel_type, QInt(500))
        cost_saved == FMul(fuel_saved, fuel_cost_per_unit)
        co2_factor == DictGet(co2_factor_map, fuel_type, co2_factor_default)
        co2_saved_tonnes == FMul(fuel_saved, co2_factor)
    IN  IF input_data.temp_C.none \/ input_data.humidity.none
           \/ input_data.pressure_hPa.none
        THEN \* arithmetic on None: TypeError (or the regressor rejects the row)
             [raised |-> TRUE, dummy |-> dummy,
              current_generation_mw |-> NoneVal, outputs |-> NoOutputs]
        ELSE [raised |-> FALSE, dummy |-> dummy,
              current_generation_mw |-> Num(current_generation_mw),
              outputs |->
                [recommended_generation_mw |-> Num(recommended_generation_mw),
                 fuel_used_recommended |-> Num(fuel_used_recommended),
                 fuel_saved |-> Num(fuel_saved),
                 cost_saved |-> Num(cost_saved),
                 co2_saved_tonnes |-> Num(co2_saved_tonnes),
                 recommended_efficiency |-> Num(recommended_efficiency)]]

\* f2(no) = int(no*100)/100: a float product, int() toward zero, and the
\* true division of two integers
f2(no) == FDivInt(QTrunc(FMul(no, QInt(100))), 100)

(***************************************************************************)
(* State                                                                   *)
(***************************************************************************)
VARIABLES
    csv,      \* plant_data.csv, the sample store: exists, header, rows
    backup,   \* backup.csv
    models,   \* the model store: fuel type -> model_<fuel>.joblib
    gen,      \* the generator process: whether its module is loaded, and
              \* where the load stands
    nextId,   \* identity of the next sample row written to the store
    nOper,    \* rows of operational input written so far
    runs,     \* trainer runs started so far
    tr,       \* the trainer process
    prevIds,  \* rows read by the trainer runs before the current one
    inf,      \* the last predict_outputs call made beside the trainer
    f1,       \* the forecast request (func1)
    eff       \* the last calculate_efficiency call

vars == <<csv, backup, models, gen, nextId, nOper, runs, tr, prevIds, inf, f1, eff>>

\* bounds of the model
MaxBatch == 4

MaxOperational == 1

\* no more sample rows than this are ever written
MaxSamples == 3 * MaxBatch + MaxOperational

MaxRuns == 2

(***************************************************************************)
(* generator.py                                                            *)
(***************************************************************************)
MissingStore == [exists |-> FALSE, header |-> FALSE, rows |-> <<>>]

\* a zero-byte file
EmptyStore == [exists |-> TRUE, header |-> FALSE, rows |-> <<>>]

\* open(fname, "w") and writerow(HEADERS)
HeaderOnly == [exists |-> TRUE, header |-> TRUE, rows |-> <<>>]

fuel_types == <<"coal", "oil", "natural_gas">>

\* generate_realistic_data(num_samples): one row per fuel type for each of
\* the num_samples timestamps, in this order (a row is known by its fuel
\* type; its other columns are random draws the trainer's control flow
\* does not read)
RECURSIVE generate_realistic_data(_)
generate_realistic_data(num_samples) ==
    IF num_samples = 0 THEN <<>>
    ELSE generate_realistic_data(num_samples - 1)
         \o [k \in 1..Len(fuel_types) |-> fuel_types[k]]

\* rows data written at the end of the store, numbered from first
Appended(store, data, first) ==
    [store EXCEPT !.rows =
        @ \o [k \in 1..Len(data) |-> [id |-> first + k - 1, fuel |-> data[k]]]]

\* a file after the header row has been written at its start
WithHeader(store) == [exists |-> TRUE, header |-> TRUE, rows |-> store.rows]

\* line 20, first file: open(CSV_FILE, mode="w") creates or truncates the
\* store; a generator process that was loaded before has been replaced
GeneratorOpenCsv ==
    /\ gen.pc = "idle"
    /\ csv' = EmptyStore
    /\ gen' = [loaded |-> FALSE, pc |-> "csv"]
    /\ UNCHANGED <<backup, models, nextId, nOper, runs, tr, prevIds, inf, f1, eff>>

\* GeneratorWriteCsv without the writerow(HEADERS): the file is closed as
\* it is
GeneratorWriteCsvNoHeader ==
    /\ gen.pc = "csv"
    /\ csv' = csv
    /\ gen' = [gen EXCEPT !.pc = "between"]
    /\ UNCHANGED <<backup, models, nextId, nOper, runs, tr, prevIds, inf, f1, eff>>

\* line 21, first file: writerow(HEADERS), which reaches the file when the
\* with block closes it
GeneratorWriteCsv ==
    /\ gen.pc = "csv"
    /\ csv' = WithHeader(csv)
    /\ gen' = [gen EXCEPT !.pc = "between"]
    /\ UNCHANGED <<backup, models, nextId, nOper, runs, tr, prevIds, inf, f1, eff>>

\* line 20, second file: open(BACKUP_CSV_FILE, mode="w")
GeneratorOpenBackup ==
    /\ gen.pc = "between"
    /\ backup' = EmptyStore
    /\ gen' = [gen EXCEPT !.pc = "backup"]
    /\ UNCHANGED <<csv, models, nextId, nOper, runs, tr, prevIds, inf, f1, eff>>

\* line 21, second file; the rest of the module is then loaded
GeneratorWriteBackup ==
    /\ gen.pc = "backup"
    /\ backup' = WithHeader(backup)
    /\ gen' = [loaded |-> TRUE, pc |-> "idle"]
    /\ UNCHANGED <<csv, models, nextId, nOper, runs, tr, prevIds, inf, f1, eff>>

\* importing the module overwrites both CSV files with the header row, one
\* file after the other
GeneratorLoad ==
    \/ GeneratorOpenCsv
    \/ GeneratorWriteCsv
    \/ GeneratorOpenBackup
    \/ GeneratorWriteBackup

\* the loaded generator produces num_samples rows per fuel type and they
\* are appended to the sample store
GenerateSamples(num_samples) ==
    /\ gen.loaded
    /\ csv.exists /\ csv.header
    /\ nextId + Len(generate_realistic_data(num_samples)) - 1 <= MaxSamples
    /\ csv' = Appended(csv, generate_realistic_data(num_samples), nextId)
    /\ nextId' = nextId + Len(generate_realistic_data(num_samples))
    /\ UNCHANGED <<backup, models, gen, nOper, runs, tr, prevIds, inf, f1, eff>>

\* a row of real operational input is appended to the sample store
AppendOperational(fuel) ==
    /\ csv.exists /\ csv.header
    /\ nextId <= MaxSamples
    /\ nOper < MaxOperational
    /\ csv' = Appended(csv, <<fuel>>, nextId)
    /\ nextId' = nextId + 1
    /\ nOper' = nOper + 1
    /\ UNCHANGED <<backup, models, gen, runs, tr, prevIds, inf, f1, eff>>

(***************************************************************************)
(* trainer.py                                                              *)
(***************************************************************************)
RECURSIVE UniqueFrom(_, _)
UniqueFrom(s, seen) ==
    IF s = <<>> THEN <<>>
    ELSE IF Head(s).fuel \in seen THEN UniqueFrom(Tail(s), seen)
    ELSE <<Head(s).fuel>> \o UniqueFrom(Tail(s), seen \cup {Head(s).fuel})

\* df['fuel_type'].unique(): the fuel types in order of first appearance
Unique(df) == UniqueFrom(df, {})

\* df[df['fuel_type'] == fuel]
FuelDf(df, fuel) == SelectSeq(df, LAMBDA r : r.fuel = fuel)

Ids(df) == {df[i].id : i \in DOMAIN df}

\* not os.path.exists(CSV_FILE) or os.stat(CSV_FILE).st_size == 0
NoData(store) == ~store.exists \/ (~store.header /\ store.rows = <<>>)

\* EnoughSamples with `len(fuel_df) <= 5`
EnoughSamplesOver(fuel_df) == ~(Len(fuel_df) <= 5)

\* the negation of `len(fuel_df) < 5`
EnoughSamples(fuel_df) == ~(Len(fuel_df) < 5)

\* df.iloc[0:0].to_csv(CSV_FILE, index=False)
ClearedStore(df) == HeaderOnly

IdleTrainer == [pc |-> "idle", out |-> "none", run |-> 0, start |-> MissingStore,
                df |-> <<>>, todo |-> <<>>, fitted |-> AbsentFile,
                trained |-> {}, skipped |-> {}]

\* pd.read_csv raises on a file that is missing or holds no bytes
ReadRaises(store) == ~store.exists \/ (~store.header /\ store.rows = <<>>)

\* lines 10-13: the entry check
TrainerStart ==
    /\ tr.pc = "idle"
    /\ runs < MaxRuns
    /\ runs' = runs + 1
    /\ prevIds' = prevIds \cup Ids(tr.df)
    /\ IF NoData(csv)
       THEN tr' = [IdleTrainer EXCEPT !.out = "nodata", !.run = runs + 1,
                                      !.start = csv]
       ELSE tr' = [IdleTrainer EXCEPT !.pc = "read", !.out = "checked",
                                      !.run = runs + 1, !.start = csv]
    /\ UNCHANGED <<csv, backup, models, gen, nextId, nOper, inf, f1, eff>>

\* line 15: read_csv reads the store as it is now; on a file emptied since
\* the entry check it raises EmptyDataError and the run dies there
TrainerRead ==
    /\ tr.pc = "read"
    /\ IF ReadRaises(csv)
       THEN tr' = [tr EXCEPT !.pc = "idle", !.out = "crashed"]
       ELSE tr' = [tr EXCEPT !.pc = "loop", !.out = "running",
                             !.df = csv.rows, !.todo = Unique(csv.rows)]
    /\ UNCHANGED <<csv, backup, models, gen, nextId, nOper, runs, prevIds, inf, f1, eff>>

\* a skip that also removes the fuel type's stored model
TrainerSkipDeletes ==
    /\ tr.pc = "loop" /\ tr.todo # <<>>
    /\ ~EnoughSamples(FuelDf(tr.df, Head(tr.todo)))
    /\ tr' = [tr EXCEPT !.todo = Tail(@), !.skipped = @ \cup {Head(tr.todo)}]
    /\ models' = [models EXCEPT ![Head(tr.todo)] = AbsentFile]
    /\ UNCHANGED <<csv, backup, gen, nextId, nOper, runs, prevIds, inf, f1, eff>>

\* lines 21-27: a fuel type with too few samples is skipped
TrainerSkip ==
    /\ tr.pc = "loop" /\ tr.todo # <<>>
    /\ ~EnoughSamples(FuelDf(tr.df, Head(tr.todo)))
    /\ tr' = [tr EXCEPT !.todo = Tail(@), !.skipped = @ \cup {Head(tr.todo)}]
    /\ UNCHANGED <<csv, backup, models, gen, nextId, nOper, runs, prevIds, inf, f1, eff>>

\* lines 29-52: the model is fitted and joblib.dump opens model_<fuel>.joblib
\* for writing, which truncates the file in place
TrainerFit ==
    /\ tr.pc = "loop" /\ tr.todo # <<>>
    /\ EnoughSamples(FuelDf(tr.df, Head(tr.todo)))
    /\ tr' = [tr EXCEPT !.pc = "dump",
                        !.fitted = ModelFile(tr.run,
                                             Ids(FuelDf(tr.df, Head(tr.todo))))]
    /\ models' = [models EXCEPT ![Head(tr.todo)] = PartialFile]
    /\ UNCHANGED <<csv, backup, gen, nextId, nOper, runs, prevIds, inf, f1, eff>>

\* line 52: joblib.dump has written the whole model and closes the file
TrainerDumpEnd ==
    /\ tr.pc = "dump"
    /\ models' = [models EXCEPT ![Head(tr.todo)] = tr.fitted]
    /\ tr' = [tr EXCEPT !.pc = "loop", !.todo = Tail(@),
                        !.trained = @ \cup {Head(tr.todo)}]
    /\ UNCHANGED <<csv, backup, gen, nextId, nOper, runs, prevIds, inf, f1, eff>>

\* lines 54-56: the store is rewritten with the headers alone
TrainerClear ==
    /\ tr.pc = "loop" /\ tr.todo = <<>>
    /\ csv' = ClearedStore(tr.df)
    /\ tr' = [tr EXCEPT !.pc = "idle", !.out = "cleared"]
    /\ UNCHANGED <<backup, models, gen, nextId, nOper, runs, prevIds, inf, f1, eff>>

(***************************************************************************)
(* predict_outputs called while the trainer may be running                 *)
(***************************************************************************)
\* what a fitted regressor may predict for a feature row
Predictions == {QInt(100), FDec(1205, 10)}

\* the inputs of the scenario: coal, 150 MW, 20 h, 9000 units of fuel, 30 C,
\* 50 % humidity, 1010 hPa
ScenarioInput(fuel) ==
    [fuel_type |-> fuel, max_capacity_mw |-> 150, run_hours |-> 20,
     fuel_used_current |-> 9000, temp_C |-> Num(QInt(30)),
     humidity |-> Num(QInt(50)), pressure_hPa |-> Num(QInt(1010))]

\* the trainer run in progress, or the last one finished, has passed over
\* the fuel type: it skipped it for having fewer than 5 samples, or the
\* store it read held no sample of it
PassedOver(fuel) ==
    /\ tr.out \in {"running", "cleared"}
    /\ \/ fuel \in tr.skipped
       \/ FuelDf(tr.df, fuel) = <<>>

\* passed_over: whether the trainer had passed over the fuel type when the
\* call was made
NoInference == [called |-> FALSE, fuel |-> "coal", file |-> AbsentFile,
                dummy |-> FALSE, raised |-> FALSE, passed_over |-> FALSE]

Infer(fuel) ==
    /\ \E y \in Predictions :
          LET r == predict_outputs(ScenarioInput(fuel), models[fuel], y)
          IN  inf' = [called |-> TRUE, fuel |-> fuel, file |-> models[fuel],
                      dummy |-> r.dummy, raised |-> r.raised,
                      passed_over |-> PassedOver(fuel)]
    /\ UNCHANGED <<csv, backup, models, gen, nextId, nOper, runs, tr, prevIds, f1, eff>>

(***************************************************************************)
(* predict_user.py: the weather supplier and the forecast (func1)          *)
(***************************************************************************)
\* the supplier offers up to this many days
MaxDaysOffered == 8

\* func1 asks for days=7
ForecastDays == 7

Min(a, b) == IF a < b THEN a ELSE b

\* What the weather supplier may answer: a failed request, or a JSON body
\* whose "daily" lists hold n days.  Day 1 of the answers that list the
\* pressure is the scenario's day (30 C, 50 %, 1010 hPa).  "absent": no
\* pressure_msl list; "listed": a full one; "null2": its second entry is
\* null; "short": it lacks the last day; "tnull": the last minimum
\* temperature is null; "reference": every day has the reference weather
\* of calc_recommended_efficiency (25 C, 40 %, 1013.25 hPa).
ResponseModes == {"absent", "listed", "null2", "short", "tnull", "reference"}

Response(n, mode) ==
    [ok |-> TRUE,
     time |-> [i \in 1..n |-> 20 + i],
     temperature_2m_max |->
        [i \in 1..n |-> IF mode = "reference" THEN Num(QInt(25))
                        ELSE Num(QInt(33 - i))],
     temperature_2m_min |->
        [i \in 1..n |-> IF mode = "tnull" /\ i = n THEN NoneVal
                        ELSE IF mode = "reference" THEN Num(QInt(25))
                        ELSE IF mode = "absent" THEN Num(QInt(28 - i))
                        ELSE Num(QInt(29 - i))],
     relative_humidity_2m_max |->
        [i \in 1..n |-> IF mode = "reference" THEN Num(QInt(40))
                        ELSE Num(QInt(54 + i))],
     relative_humidity_2m_min |->
        [i \in 1..n |-> IF mode = "reference" THEN Num(QInt(40))
                        ELSE Num(QInt(44 + i))],
     has_pressure_msl |-> mode \in {"listed", "null2", "short", "reference"},
     pressure_msl |->
        [i \in 1..(IF mode = "short" /\ n > 0 THEN n - 1 ELSE n) |->
            IF mode = "null2" /\ i = 2 THEN NoneVal
            ELSE IF mode = "reference" THEN Num(FDec(101325, 100))
            ELSE Num(QInt(1011 - i))]]

FailedResponse == [ok |-> FALSE, time |-> <<>>,
                   temperature_2m_max |-> <<>>, temperature_2m_min |-> <<>>,
                   relative_humidity_2m_max |-> <<>>,
                   relative_humidity_2m_min |-> <<>>,
                   has_pressure_msl |-> FALSE, pressure_msl |-> <<>>]

\* how many days an answer may list: none, one, two, as many as asked for,
\* and more than asked for
DayCounts == {0, 1, 2, ForecastDays, MaxDaysOffered}

Responses ==
    {FailedResponse}
    \cup {Response(n, mode) : n \in DayCounts, mode \in ResponseModes}

\* data["daily"].get("pressure_msl", [1013] * len(daily_times))
PressureList(data) ==
    IF data.has_pressure_msl THEN data.pressure_msl
    ELSE [i \in 1..Len(data.time) |-> Num(QInt(1013))]

\* whether building day i raises: an index past the end of a list, or None
\* as an operand of + (the pressure is only copied)
DayRaises(data, i) ==
    \/ i > Len(data.temperature_2m_max) \/ i > Len(data.temperature_2m_min)
    \/ i > Len(data.relative_humidity_2m_max)
    \/ i > Len(data.relative_humidity_2m_min)
    \/ i > Len(PressureList(data))
    \/ data.temperature_2m_max[i].none \/ data.temperature_2m_min[i].none
    \/ data.relative_humidity_2m_max[i].none
    \/ data.relative_humidity_2m_min[i].none

ForecastDay(data, i) ==
    [date |-> data.time[i],
     temp_C |-> Num(FDivInt(FAdd(data.temperature_2m_max[i].q,
                                 data.temperature_2m_min[i].q), 2)),
     humidity |-> Num(FDivInt(FAdd(data.relative_humidity_2m_max[i].q,
                                   data.relative_humidity_2m_min[i].q), 2)),
     pressure_hPa |-> PressureList(data)[i]]

\* fetch_weather_forecast(lat, lon, days) on the supplier's answer
fetch_weather_forecast(data, days) ==
    LET n == Min(days, Len(data.time))
    IN  IF ~data.ok \/ \E i \in 1..n : DayRaises(data, i)
        THEN [raised |-> TRUE, forecast |-> <<>>]
        ELSE [raised |-> FALSE,
              forecast |-> [i \in 1..n |-> ForecastDay(data, i)]]

\* what the caller (app.py) passes: integers and a fuel name
SampleInputs ==
    [fuel_type : FuelNames, max_capacity_mw : {150}, run_hours : {20},
     fuel_used_current : {9000, 300}]

\* input_data = sample_input.copy() with the day's weather put in
InputData(sample_input, day) ==
    [fuel_type |-> sample_input.fuel_type,
     max_capacity_mw |-> sample_input.max_capacity_mw,
     run_hours |-> sample_input.run_hours,
     fuel_used_current |-> sample_input.fuel_used_current,
     temp_C |-> day.temp_C, humidity |-> day.humidity,
     pressure_hPa |-> day.pressure_hPa]

\* the row func1 appends for a day
OutcomeRow(day, outputs) ==
    <<day.date,
      f2(outputs.recommended_generation_mw.q),
      f2(outputs.fuel_used_recommended.q),
      f2(outputs.fuel_saved.q),
      f2(outputs.cost_saved.q),
      f2(outputs.co2_saved_tonnes.q),
      f2(outputs.recommended_efficiency.q)>>

NoCall == [called |-> FALSE, input_data |-> <<>>, file |-> AbsentFile,
           res |-> <<>>]

NoRequest == [pc |-> "idle", sample_input |-> <<>>, location |-> "none",
              fetched |-> "none", forecast |-> <<>>, i |-> 0, l |-> <<>>, last |-> NoCall,
              ret |-> [kind |-> "none", val |-> <<>>]]

\* lines 119-133: the location (or the fallback) and the weather fetch;
\* a failed fetch ends the request with exit(1)
Func1Start(sample_input, gps_ok, data) ==
    /\ f1.pc = "idle"
    /\ LET w == fetch_weather_forecast(data, ForecastDays)
           loc == IF gps_ok THEN "gps" ELSE "chennai"
       IN  IF w.raised
           THEN f1' = [NoRequest EXCEPT !.pc = "done",
                                        !.sample_input = sample_input,
                                        !.location = loc,
                                        !.fetched = "failed",
                                        !.ret = [kind |-> "exit", val |-> <<>>]]
           ELSE f1' = [NoRequest EXCEPT !.pc = "loop",
                                        !.sample_input = sample_input,
                                        !.location = loc,
                                        !.fetched = "ok",
                                        !.forecast = w.forecast, !.i = 1]
    /\ UNCHANGED <<csv, backup, models, gen, nextId, nOper, runs, tr, prevIds, inf, eff>>

\* AfterDay with the row put in front of the list
AfterDayPrepend(req, day, input_data, file, res) ==
    IF res.raised
    THEN [req EXCEPT !.pc = "done",
                     !.last = [called |-> TRUE, input_data |-> input_data,
                               file |-> file, res |-> res],
                     !.ret = [kind |-> "raised", val |-> <<>>]]
    ELSE [req EXCEPT !.i = @ + 1,
                     !.l = <<OutcomeRow(day, res.outputs)>> \o @,
                     !.last = [called |-> TRUE, input_data |-> input_data,
                               file |-> file, res |-> res]]

\* AfterDay with a day that raised left out and the loop going on
AfterDaySkip(req, day, input_data, file, res) ==
    IF res.raised
    THEN [req EXCEPT !.i = @ + 1,
                     !.last = [called |-> TRUE, input_data |-> input_data,
                               file |-> file, res |-> res]]
    ELSE [req EXCEPT !.i = @ + 1,
                     !.l = Append(@, OutcomeRow(day, res.outputs)),
                     !.last = [called |-> TRUE, input_data |-> input_data,
                               file |-> file, res |-> res]]

\* what func1 does with the result of predict_outputs for the day at f1.i
AfterDay(req, day, input_data, file, res) ==
    IF res.raised
    THEN [req EXCEPT !.pc = "done",
                     !.last = [called |-> TRUE, input_data |-> input_data,
                               file |-> file, res |-> res],
                     !.ret = [kind |-> "raised", val |-> <<>>]]
    ELSE [req EXCEPT !.i = @ + 1,
                     !.l = Append(@, OutcomeRow(day, res.outputs)),
                     !.last = [called |-> TRUE, input_data |-> input_data,
                               file |-> file, res |-> res]]

\* lines 137-154: one pass of the loop over the forecast
Func1Day ==
    /\ f1.pc = "loop" /\ f1.i <= Len(f1.forecast)
    /\ \E y \in Predictions :
          LET day == f1.forecast[f1.i]
              input_data == InputData(f1.sample_input, day)
              file == models[f1.sample_input.fuel_type]
          IN  f1' = AfterDay(f1, day, input_data, file,
                             predict_outputs(input_data, file, y))
    /\ UNCHANGED <<csv, backup, models, gen, nextId, nOper, runs, tr, prevIds, inf, eff>>

\* line 155: return l
Func1Return ==
    /\ f1.pc = "loop" /\ f1.i > Len(f1.forecast)
    /\ f1' = [f1 EXCEPT !.pc = "done", !.ret = [kind |-> "list", val |-> f1.l]]
    /\ UNCHANGED <<csv, backup, models, gen, nextId, nOper, runs, tr, prevIds, inf, eff>>

\* the next request
Func1Again ==
    /\ f1.pc = "done"
    /\ f1' = NoRequest
    /\ UNCHANGED <<csv, backup, models, gen, nextId, nOper, runs, tr, prevIds, inf, eff>>

(***************************************************************************)
(* generator.py: calculate_efficiency                                      *)
(***************************************************************************)
\* self.fuel_types, the fields calculate_efficiency reads
fuel_configs ==
    [coal |->
        [efficiency_range |-> <<FDec(32, 100), FDec(46, 100)>>,
         temp_sensitivity |-> FDec(18, 10000),
         humidity_sensitivity |-> FDec(8, 10000),
         pressure_sensitivity |-> FDec(6, 10000)],
     oil |->
        [efficiency_range |-> <<FDec(36, 100), FDec(42, 100)>>,
         temp_sensitivity |-> FDec(15, 10000),
         humidity_sensitivity |-> FDec(7, 10000),
         pressure_sensitivity |-> FDec(5, 10000)],
     natural_gas |->
        [efficiency_range |-> <<FDec(40, 100), FDec(60, 100)>>,
         temp_sensitivity |-> FDec(12, 10000),
         humidity_sensitivity |-> FDec(5, 10000),
         pressure_sensitivity |-> FDec(8, 10000)]]

\* days from 1970-01-01 to the date y-m-d of the Gregorian calendar
DaysFromCivil(y, m, d) ==
    LET yy == IF m <= 2 THEN y - 1 ELSE y
        era == yy \div 400
        yoe == yy - era * 400
        doy == (153 * (IF m > 2 THEN m - 3 ELSE m + 9) + 2) \div 5 + d - 1
        doe == yoe * 365 + yoe \div 4 - yoe \div 100 + doy
    IN  era * 146097 + doe - 719468

\* (datetime.strptime(timestamp, ...) - datetime(2020, 1, 1)).days, for a
\* timestamp given by its date
DaysSinceStart(timestamp) ==
    DaysFromCivil(timestamp.y, timestamp.m, timestamp.d)
    - DaysFromCivil(2020, 1, 1)

\* the literals of calculate_efficiency
load_factor_best == FDec(9, 10)

load_factor_slope == FDec(8, 100)

pressure_standard == FDec(101325, 100)

hours_factor_short == FDec(95, 100)

hours_factor_medium == FDec(98, 100)

hours_slope == FDec(5, 100000)

degradation_per_day == FDec(5, 100000)

\* np.mean of the two ends of a range
Mean(range) == FDivInt(FAdd(range[1], range[2]), 2)

\* max(min_eff, min(max_eff, efficiency)): min and max return their first
\* argument unless the second is strictly beyond it
Clip(min_eff, max_eff, efficiency) ==
    IF QLt(efficiency, max_eff)
    THEN (IF QLt(min_eff, efficiency) THEN efficiency ELSE min_eff)
    ELSE max_eff

\* the clipped value is the numpy.float64 product itself, and not one of
\* the Python floats of the range
IsNumpy(min_eff, max_eff, efficiency) ==
    QLt(efficiency, max_eff) /\ QLt(min_eff, efficiency)

\* round(x, 4) of a numpy.float64: x * 10000, rint, / 10000, each in floats
RoundNumpy(x) == FDivInt(QRint(FMul(x, QInt(10000))), 10000)

\* round(x, 4) of a Python float: the float nearest to the multiple of
\* 0.0001 nearest to x
RoundFloat(x) == FDivInt(QRint(QMul(x, QInt(10000))), 10000)

\* round(efficiency, 4)
Round4(x, numpy) == IF numpy THEN RoundNumpy(x) ELSE RoundFloat(x)

\* lines 115-121: clip, noise and round
ClipNoiseRound(min_eff, max_eff, efficiency, noise) ==
    Round4(FMul(Clip(min_eff, max_eff, efficiency), noise),
           IsNumpy(min_eff, max_eff, efficiency))

\* calculate_efficiency; noise is the draw of random.uniform(0.995, 1.005)
calculate_efficiency(config, temp_C, humidity, pressure_hPa, run_hours, timestamp, load_factor, noise) ==
    LET load_factor_adj ==
            FSub(QInt(1), FMul(QAbs(FSub(load_factor, load_factor_best)),
                               load_factor_slope))
        base_efficiency == FMul(Mean(config.efficiency_range), load_factor_adj)
        temp_factor ==
            FSub(QInt(1), FMul(config.temp_sensitivity,
                               FSub(temp_C, QInt(25))))
        humidity_factor ==
            FSub(QInt(1), FMul(config.humidity_sensitivity,
                               FSub(humidity, QInt(40))))
        pressure_factor ==
            FAdd(QInt(1), FMul(config.pressure_sensitivity,
                               FSub(pressure_hPa, pressure_standard)))
        hours_factor ==
            IF run_hours < 4 THEN hours_factor_short
            ELSE IF run_hours < 8 THEN hours_factor_medium
            ELSE FAdd(QInt(1), FMul(hours_slope, QInt(run_hours - 8)))
        degradation_factor ==
            FSub(QInt(1), FMul(QInt(DaysSinceStart(timestamp)),
                               degradation_per_day))
    IN  ClipNoiseRound(
            config.efficiency_range[1], config.efficiency_range[2],
            FMul(FMul(FMul(FMul(FMul(base_efficiency, temp_factor),
                                humidity_factor), pressure_factor),
                      hours_factor), degradation_factor),
            noise)

\* the arguments calculate_efficiency is applied to
EffTemps == {QInt(8), QInt(25), QInt(39)}

EffHumidities == {QInt(30), QInt(40), QInt(70)}

EffPressures == {FDec(100325, 100), FDec(101325, 100), FDec(102325, 100)}

EffRunHours == {3, 7, 8, 24}

EffTimestamps == {[y |-> 2020, m |-> 1, d |-> 1], [y |-> 2026, m |-> 10, d |-> 30]}

EffLoadFactors == {FDec(6, 10), FDec(9, 10), QInt(1)}

EffNoises == {FDec(995, 1000), QInt(1), FDec(1005, 1000)}

\* a call of calculate_efficiency: its arguments, and its result once made
EffCall(fuel_type, temp_C, humidity, pressure_hPa, run_hours, timestamp, load_factor, noise) ==
    [done |-> FALSE, fuel_type |-> fuel_type, temp_C |-> temp_C,
     humidity |-> humidity, pressure_hPa |-> pressure_hPa,
     run_hours |-> run_hours, timestamp |-> timestamp,
     load_factor |-> load_factor, noise |-> noise, out |-> QInt(0)]

NoEfficiency ==
    EffCall("coal", QInt(25), QInt(40), FDec(101325, 100), 8,
            [y |-> 2020, m |-> 1, d |-> 1], FDec(9, 10), QInt(1))

EffCalls ==
    {EffCall(fuel_type, temp_C, humidity, pressure_hPa, run_hours, timestamp,
             load_factor, noise) :
        fuel_type \in KnownFuels, temp_C \in EffTemps,
        humidity \in EffHumidities, pressure_hPa \in EffPressures,
        run_hours \in EffRunHours, timestamp \in EffTimestamps,
        load_factor \in EffLoadFactors, noise \in EffNoises}

CalcEfficiency ==
    /\ ~eff.done
    /\ eff' = [eff EXCEPT !.done = TRUE,
                          !.out = calculate_efficiency(
                                      fuel_configs[eff.fuel_type], eff.temp_C,
                                      eff.humidity, eff.pressure_hPa,
                                      eff.run_hours, eff.timestamp,
                                      eff.load_factor, eff.noise)]
    /\ UNCHANGED <<csv, backup, models, gen, nextId, nOper, runs, tr, prevIds, inf, f1>>

(***************************************************************************)
(* Specifications                                                          *)
(***************************************************************************)
\* before any run the store is missing, a zero-byte file, or the header row
\* alone
Init ==
    /\ csv \in {MissingStore, EmptyStore, HeaderOnly}
    /\ backup = MissingStore
    /\ models = [f \in FuelNames |-> AbsentFile]
    /\ gen = [loaded |-> FALSE, pc |-> "idle"]
    /\ nextId = 1
    /\ nOper = 0
    /\ runs = 0
    /\ tr = IdleTrainer
    /\ prevIds = {}
    /\ inf = NoInference
    /\ f1 = NoRequest
    /\ eff = NoEfficiency

Next ==
    \/ GeneratorLoad
    \/ \E n \in 1..MaxBatch : GenerateSamples(n)
    \/ \E fuel \in FuelNames : AppendOperational(fuel)
    \/ TrainerStart
    \/ TrainerRead
    \/ TrainerSkip
    \/ TrainerFit
    \/ TrainerDumpEnd
    \/ TrainerClear

Spec == Init /\ [][Next]_vars

\* The state an earlier trainer run leaves behind: run 1 read five rows per
\* known fuel (rows 1 to 15), saved a model for each and cleared the store.
PriorRows == Appended(HeaderOnly, generate_realistic_data(5), 1).rows

PriorModel(fuel) == ModelFile(1, Ids(FuelDf(PriorRows, fuel)))

\* a model store as trainer runs leave it: no model, or one for each known
\* fuel
StoredModels ==
    {[f \in FuelNames |-> IF f \in have THEN PriorModel(f) ELSE AbsentFile] :
        have \in {{}, KnownFuels}}

InitForecast ==
    /\ csv = HeaderOnly
    /\ backup = HeaderOnly
    /\ models \in StoredModels
    /\ gen = [loaded |-> FALSE, pc |-> "idle"]
    /\ nextId = 1
    /\ nOper = 0
    /\ runs = 0
    /\ tr = IdleTrainer
    /\ prevIds = {}
    /\ inf = NoInference
    /\ f1 = NoRequest
    /\ eff = NoEfficiency

NextForecast ==
    \/ \E sample_input \in SampleInputs, gps_ok \in BOOLEAN, data \in Responses :
          Func1Start(sample_input, gps_ok, data)
    \/ Func1Day
    \/ Func1Return
    \/ Func1Again

SpecForecast == InitForecast /\ [][NextForecast]_vars

\* calculate_efficiency applied to every combination of its arguments
InitEff ==
    /\ csv = HeaderOnly
    /\ backup = HeaderOnly
    /\ models = [f \in FuelNames |-> AbsentFile]
    /\ gen = [loaded |-> TRUE, pc |-> "idle"]
    /\ nextId = 1
    /\ nOper = 0
    /\ runs = 0
    /\ tr = IdleTrainer
    /\ prevIds = {}
    /\ inf = NoInference
    /\ f1 = NoRequest
    /\ eff \in EffCalls

NextEff == CalcEfficiency

SpecEff == InitEff /\ [][NextEff]_vars

\* The trainer runs on a filled store while predict_outputs is called: the
\* store holds MaxBatch or MaxBatch + 1 generated rows per known fuel and
\* possibly one operational row; an earlier run may have left its models.
InitServe ==
    \E prior \in BOOLEAN, n \in MaxBatch..(MaxBatch + 1),
       extra \in {<<>>, <<"coal">>, <<"biomass">>} :
        LET first == IF prior THEN Len(PriorRows) + 1 ELSE 1
            data == generate_realistic_data(n) \o extra
        IN  /\ csv = Appended(HeaderOnly, data, first)
            /\ backup = HeaderOnly
            /\ models = [f \in FuelNames |->
                            IF prior /\ f \in KnownFuels THEN PriorModel(f)
                            ELSE AbsentFile]
            /\ gen = [loaded |-> TRUE, pc |-> "idle"]
            /\ nextId = first + Len(data)
            /\ nOper = Len(extra)
            /\ runs = IF prior THEN 1 ELSE 0
            /\ tr = IF prior
                    THEN [IdleTrainer EXCEPT !.out = "cleared", !.run = 1,
                                             !.start = [HeaderOnly EXCEPT
                                                          !.rows = PriorRows],
                                             !.df = PriorRows,
                                             !.trained = KnownFuels]
                    ELSE IdleTrainer
            /\ prevIds = {}
            /\ inf = NoInference
            /\ f1 = NoRequest
            /\ eff = NoEfficiency

NextServe ==
    \/ TrainerStart
    \/ TrainerRead
    \/ TrainerSkip
    \/ TrainerFit
    \/ TrainerDumpEnd
    \/ TrainerClear
    \/ \E fuel \in FuelNames : Infer(fuel)

SpecServe == InitServe /\ [][NextServe]_vars

(***************************************************************************)
(* Properties                                                              *)
(***************************************************************************)
OutputNames == {"recommended_generation_mw", "fuel_used_recommended",
                "fuel_saved", "cost_saved", "co2_saved_tonnes",
                "recommended_efficiency"}

\* the row expected for a forecast day: the caller's four inputs with the
\* day's temperature, humidity and pressure, through predict_outputs and f2
ExpectedRow(sample_input, day, file) ==
    LET res == predict_outputs(
                   [fuel_type |-> sample_input.fuel_type,
                    max_capacity_mw |-> sample_input.max_capacity_mw,
                    run_hours |-> sample_input.run_hours,
                    fuel_used_current |-> sample_input.fuel_used_current,
                    temp_C |-> day.temp_C, humidity |-> day.humidity,
                    pressure_hPa |-> day.pressure_hPa],
                   file, QInt(0))
    IN  <<day.date>>
        \o [k \in 1..6 |->
               f2(res.outputs[<<"recommended_generation_mw",
                                "fuel_used_recommended", "fuel_saved",
                                "cost_saved", "co2_saved_tonnes",
                                "recommended_efficiency">>[k]].q)]

\* C1: the forecast returns exactly one outcome per weather day of the
\* supplier's list, in the order of the days (outcome i carries the date of
\* day i), each computed from the caller's fuel type, capacity, run hours
\* and current fuel use with the temperature, humidity and pressure of
\* that day; the rows gathered so far obey the same rule.
C1_OneOutcomePerDayInOrder ==
    /\ f1.pc = "loop" => Len(f1.l) = f1.i - 1
    /\ \A i \in 1..Len(f1.l) :
          f1.l[i] = ExpectedRow(f1.sample_input, f1.forecast[i],
                                models[f1.sample_input.fuel_type])
    /\ f1.ret.kind = "list" =>
          /\ Len(f1.ret.val) = Len(f1.forecast)
          /\ f1.ret.val = f1.l

C1_Witness ==
    /\ f1.ret.kind = "list"
    /\ Len(f1.ret.val) = ForecastDays
    /\ f1.ret.val[1][1] = f1.forecast[1].date
    /\ f1.ret.val[ForecastDays][1] = f1.forecast[ForecastDays].date

\* whether predict_outputs can compute the day: its three weather values
\* are numbers
DayComputable(day) ==
    ~day.temp_C.none /\ ~day.humidity.none /\ ~day.pressure_hPa.none

\* C2: a forecast request returns a row for every day of the forecast or
\* fails as a whole: a failed weather fetch ends it with exit and no rows, a
\* day that cannot be computed ends it with the exception and no rows, and
\* a returned list never covers only some of the days.
C2_AllDaysOrFailure ==
    /\ f1.fetched = "failed" => f1.ret.kind = "exit" /\ f1.l = <<>>
    /\ f1.ret.kind \in {"exit", "raised"} => f1.ret.val = <<>>
    /\ f1.ret.kind = "list" =>
          /\ Len(f1.ret.val) = Len(f1.forecast)
          /\ \A i \in 1..Len(f1.forecast) : DayComputable(f1.forecast[i])
    /\ (f1.pc = "done" /\ f1.fetched = "ok"
        /\ \E i \in 1..Len(f1.forecast) : ~DayComputable(f1.forecast[i]))
       => f1.ret.kind = "raised"

C2_Witness ==
    /\ f1.ret.kind = "raised"
    /\ Len(f1.l) >= 1
    /\ Len(f1.l) < Len(f1.forecast)

\* C3: predict_outputs for a fuel type whose model cannot be loaded does
\* not raise on numeric inputs: the fallback predictor returning
\* 0.7 x max_capacity_mw is used and all six quantities are returned.
C3_MissingModelFallback ==
    (/\ f1.last.called
     /\ f1.last.file.kind # "model"
     /\ DayComputable(f1.last.input_data))
    => /\ ~f1.last.res.raised
       /\ f1.last.res.dummy
       /\ ~f1.last.res.current_generation_mw.none
       /\ QEq(f1.last.res.current_generation_mw.q,
              QDec(7 * f1.last.input_data.max_capacity_mw, 10))
       /\ DOMAIN f1.last.res.outputs = OutputNames
       /\ \A k \in OutputNames : ~f1.last.res.outputs[k].none

C3_Witness ==
    /\ f1.last.called
    /\ f1.last.file.kind = "absent"
    /\ ~f1.last.res.raised
    /\ f1.last.res.dummy

\* C4: the value returned by calculate_efficiency lies within
\* [efficiency_min, efficiency_max] of the fuel profile, for every noise
\* draw in [0.995, 1.005].
C4_EfficiencyWithinRange ==
    eff.done =>
        /\ QLe(fuel_configs[eff.fuel_type].efficiency_range[1], eff.out)
        /\ QLe(eff.out, fuel_configs[eff.fuel_type].efficiency_range[2])

\* C5: in a finished trainer run every fuel type read with fewer than 5
\* samples was skipped and has no model of that run, every fuel type read
\* with at least 5 samples has the model fitted on its own rows saved under
\* its own key, and no fuel type of the data was left out.
C5_SkipKeepsOthersTraining ==
    tr.out = "cleared" =>
        /\ \A fuel \in FuelNames :
              LET n == Len(FuelDf(tr.df, fuel))
              IN  /\ (n > 0 /\ n < 5) =>
                        /\ fuel \in tr.skipped
                        /\ fuel \notin tr.trained
                        /\ models[fuel].run # tr.run
                  /\ n >= 5 =>
                        /\ fuel \in tr.trained
                        /\ fuel \notin tr.skipped
                        /\ models[fuel]
                           = ModelFile(tr.run, Ids(FuelDf(tr.df, fuel)))
        /\ tr.trained \cup tr.skipped = {tr.df[i].fuel : i \in DOMAIN tr.df}

C5_Witness ==
    /\ tr.out = "cleared"
    /\ \E fuel \in FuelNames : Len(FuelDf(tr.df, fuel)) = 4
    /\ \E fuel \in FuelNames :
          /\ Len(FuelDf(tr.df, fuel)) >= 5
          /\ models[fuel].kind = "model"
          /\ models[fuel].run = tr.run

IsPrefix(s, t) == Len(s) <= Len(t) /\ SubSeq(t, 1, Len(s)) = s

\* the step in which the trainer rewrites the store after training
TrainerClearStep == tr.out = "running" /\ tr'.out = "cleared"

\* the step in which the loading generator module opens the store for
\* writing, which truncates it
GeneratorLoadStep ==
    /\ gen.pc = "idle" /\ gen'.pc = "csv"
    /\ csv' = EmptyStore
    /\ tr' = tr

\* the step in which the loading generator module writes the header row to
\* the store
GeneratorHeaderStep == gen.pc = "csv" /\ gen'.pc = "between"

\* C6 as claimed: every step keeps the rows of the store and at most adds
\* rows after them, except the trainer's truncation after training.
C6_OnlyTrainerEmptiesStore ==
    [][IsPrefix(csv.rows, csv'.rows) \/ TrainerClearStep]_vars

\* C6: every step keeps the rows of the store and at most adds rows after
\* them, except the trainer's truncation after training and the load of
\* the generator module, which truncates the store and then leaves it with
\* the header row.
C6_StoreEmptiedByTrainerOrLoad ==
    [][/\ IsPrefix(csv.rows, csv'.rows) \/ TrainerClearStep
          \/ GeneratorLoadStep
       /\ GeneratorHeaderStep => (csv'.header /\ csv'.rows = csv.rows)]_vars

\* rows were written, no trainer run ever started, and the store is empty
C6_Witness ==
    /\ nextId > 1
    /\ runs = 0
    /\ csv = HeaderOnly

\* C7: a predict_outputs call never finds a partially written model file:
\* it loads the complete old model, the complete new one, or finds none.
C7_NoPartialModelObserved ==
    inf.called => inf.file.kind # "partial"

\* C8: a trainer run started on a missing store or on one holding no sample
\* rows aborts with 'No data available for training.': it fits and saves
\* nothing and does not rewrite the store.
C8_NoRowsAbortsTraining ==
    (tr.out # "none" /\ (~tr.start.exists \/ tr.start.rows = <<>>))
    => (tr.out = "nodata" /\ tr.pc = "idle")

\* C9: a trainer run that got past the entry check ends by leaving the
\* store with the header row and no sample rows, and no trainer run reads a
\* sample that an earlier run had read.
C9_StoreClearedAfterRun ==
    /\ [][(tr.pc # "idle" /\ tr'.pc = "idle")
          => (tr'.out = "cleared" /\ csv' = HeaderOnly)]_vars
    /\ [](tr.out \in {"running", "cleared"} => Ids(tr.df) \cap prevIds = {})

\* the scenario: coal, 150 MW, 20 h, 9000 units of fuel, 30 C, 50 %, 1010 hPa
IsScenario(call) ==
    /\ call.called /\ ~call.res.raised
    /\ call.input_data.fuel_type = "coal"
    /\ call.input_data.max_capacity_mw = 150
    /\ call.input_data.run_hours = 20
    /\ call.input_data.fuel_used_current = 9000
    /\ QEq(call.input_data.temp_C.q, QInt(30))
    /\ QEq(call.input_data.humidity.q, QInt(50))
    /\ QEq(call.input_data.pressure_hPa.q, QInt(1010))

\* 0.38 x (1-0.002x5) x (1-0.001x10) x (1+0.0005x(-3.25))
ScenarioEfficiency ==
    FMul(FMul(FMul(FDec(38, 100),
                   FSub(QInt(1), FMul(FDec(2, 1000), QInt(5)))),
              FSub(QInt(1), FMul(FDec(1, 1000), QInt(10)))),
         FSub(QInt(1), FMul(FDec(5, 10000), FDec(325, 100))))

\* fuel saved = 9000 - fuel used recommended, cost saved = fuel saved x 6000,
\* CO2 saved = fuel saved x 2.42
ScenarioSavings(out) ==
    /\ QEq(out.fuel_saved.q, FSub(QInt(9000), out.fuel_used_recommended.q))
    /\ QEq(out.cost_saved.q, FMul(out.fuel_saved.q, QInt(6000)))
    /\ QEq(out.co2_saved_tonnes.q, FMul(out.fuel_saved.q, FDec(242, 100)))

\* C10 as claimed: in the scenario the recommended efficiency is the product
\* above and 0.3749 to four decimal places, the recommended generation is
\* 56.24 MW to two decimal places, and the savings follow from the fuel used.
C10_ScenarioValuesClaimed ==
    IsScenario(f1.last) =>
        /\ QEq(f1.last.res.outputs.recommended_efficiency.q, ScenarioEfficiency)
        /\ QEq(QRoundTo(f1.last.res.outputs.recommended_efficiency.q, 10000),
               QDec(3749, 10000))
        /\ QEq(QRoundTo(f1.last.res.outputs.recommended_generation_mw.q, 100),
               QDec(5624, 100))
        /\ ScenarioSavings(f1.last.res.outputs)

\* C10: in the scenario the recommended efficiency is the product above and
\* 0.3718 to four decimal places, the recommended generation is 55.77 MW to
\* two decimal places, and the savings follow from the fuel used.
C10_ScenarioValues ==
    IsScenario(f1.last) =>
        /\ QEq(f1.last.res.outputs.recommended_efficiency.q, ScenarioEfficiency)
        /\ QEq(QRoundTo(f1.last.res.outputs.recommended_efficiency.q, 10000),
               QDec(3718, 10000))
        /\ QEq(QRoundTo(f1.last.res.outputs.recommended_generation_mw.q, 100),
               QDec(5577, 100))
        /\ ScenarioSavings(f1.last.res.outputs)

C10_Witness ==
    /\ IsScenario(f1.last)
    /\ f1.i = 2
    /\ Len(f1.l) = 1

\* the six quantities for the given base efficiency, fuel per kWh, cost per
\* unit of fuel and CO2 factor
OutputsWith(input_data, base_eff, fuel_per_kwh, fuel_cost, co2_factor) ==
    LET temp_factor ==
            FSub(QInt(1),
                 FMul(FDec(2, 1000), FSub(input_data.temp_C.q, QInt(25))))
        humidity_factor ==
            FSub(QInt(1),
                 FMul(FDec(1, 1000), FSub(input_data.humidity.q, QInt(40))))
        pressure_factor ==
            FAdd(QInt(1),
                 FMul(FDec(5, 10000),
                      FSub(input_data.pressure_hPa.q, FDec(101325, 100))))
        efficiency ==
            FMul(FMul(FMul(base_eff, temp_factor), humidity_factor),
                 pressure_factor)
        generation == FMul(QInt(input_data.max_capacity_mw), efficiency)
        energy ==
            FMul(FMul(generation, QInt(1000)), QInt(input_data.run_hours))
        used == FDivInt(FMul(energy, fuel_per_kwh), 1000)
        saved == FSub(QInt(input_data.fuel_used_current), used)
    IN  [recommended_generation_mw |-> Num(generation),
         fuel_used_recommended |-> Num(used),
         fuel_saved |-> Num(saved),
         cost_saved |-> Num(FMul(saved, fuel_cost)),
         co2_saved_tonnes |-> Num(FMul(saved, co2_factor)),
         recommended_efficiency |-> Num(efficiency)]

\* C11: predict_outputs for a fuel type that is none of coal, oil and
\* natural_gas does not raise on numeric weather values and returns the six
\* quantities computed with base efficiency 0.40, 0.3 units of fuel per kWh,
\* a cost of 500 per unit and a CO2 factor of 2.5.
C11_UnknownFuelUsesDefaults ==
    (/\ f1.last.called
     /\ f1.last.input_data.fuel_type \notin KnownFuels
     /\ DayComputable(f1.last.input_data))
    => /\ ~f1.last.res.raised
       /\ f1.last.res.outputs =
             OutputsWith(f1.last.input_data, FDec(40, 100), FDec(3, 10),
                         QInt(500), FDec(25, 10))

C11_Witness ==
    /\ f1.last.called
    /\ f1.last.input_data.fuel_type = "biomass"
    /\ ~f1.last.res.raised
    /\ ~f1.last.res.outputs.cost_saved.none
    /\ Len(f1.l) >= 1

\* the outputs in the order of the columns 2 to 7 of an outcome row
OutputOrder == <<"recommended_generation_mw", "fuel_used_recommended",
                 "fuel_saved", "cost_saved", "co2_saved_tonnes",
                 "recommended_efficiency">>

\* r is v cut off after two decimal places, toward zero
TruncatedTo2(v, r) ==
    IF v.num = <<>> THEN r.num = <<>>
    ELSE IF ~v.neg THEN QLe(r, v) /\ QLt(v, QAdd(r, QDec(1, 100)))
    ELSE QLt(QSub(r, QDec(1, 100)), v) /\ QLe(v, r)

\* C12: each of the six quantities of a forecast outcome row is the value
\* returned by predict_outputs truncated toward zero to two decimal places,
\* never rounded: r <= v < r + 0.01 for a positive value v and
\* r - 0.01 < v <= r for a negative one.
C12_TruncatedTowardZero ==
    (f1.last.called /\ ~f1.last.res.raised /\ f1.l # <<>>)
    => \A k \in 1..6 :
          TruncatedTo2(f1.last.res.outputs[OutputOrder[k]].q,
                       f1.l[Len(f1.l)][k + 1])

\* a model store entry unlike the one the call read: no file for a call
\* that loaded a model, a fitted model for a call that did not
OtherModel(file) ==
    IF file.kind = "model" THEN AbsentFile ELSE PriorModel("coal")

\* C13: the six quantities returned by predict_outputs do not depend on the
\* model: the same input data with another model store entry (a fitted
\* regressor, whatever it predicts, in place of a missing file and the other
\* way round) gives the same six quantities.
C13_OutcomeIndependentOfModel ==
    (f1.last.called /\ ~f1.last.res.raised)
    => \A y \in Predictions :
          LET again == predict_outputs(f1.last.input_data,
                                       OtherModel(f1.last.file), y)
          IN  /\ ~again.raised
              /\ again.dummy # f1.last.res.dummy
              /\ again.outputs = f1.last.res.outputs

C13_Witness ==
    /\ f1.last.called
    /\ ~f1.last.res.raised
    /\ f1.last.file.kind = "model"
    /\ ~f1.last.res.dummy
    /\ ~QEq(f1.last.res.current_generation_mw.q,
            DummyPredict(f1.last.input_data))
    /\ Len(f1.l) >= 1

\* the step writes the file of the fuel type the run is fitting: joblib.dump
\* opens it, and then holds the model the run has fitted on that fuel
\* type's rows
SavesFitted(fuel) ==
    /\ tr.pc \in {"loop", "dump"} /\ tr.todo # <<>>
    /\ fuel = Head(tr.todo)
    /\ EnoughSamples(FuelDf(tr.df, fuel))
    /\ models'[fuel] \in {PartialFile,
                          ModelFile(tr.run, Ids(FuelDf(tr.df, fuel)))}

\* a predict_outputs call for the fuel type made in this step loads the
\* model stored by an earlier run and predicts with it
LoadsOlderModel(fuel) ==
    /\ inf'.file = models[fuel]
    /\ inf'.file.run < tr.run
    /\ ~inf'.dummy /\ ~inf'.raised
    /\ models'[fuel] = models[fuel]

\* C14: a trainer run never deletes a stored model.  A stored model file
\* changes only when the run saves the model it has just fitted for that
\* same fuel type; the file of a fuel type the run passes over (fewer than
\* 5 samples, or none) stays as it was, and a later predict_outputs call for
\* that fuel type loads that older model and not the fallback predictor.
C14_TrainerNeverDeletesModel ==
    [][\A fuel \in FuelNames :
          /\ models'[fuel] # models[fuel] => SavesFitted(fuel)
          /\ models'[fuel].kind = "absent" => models[fuel].kind = "absent"
          /\ (inf' # inf /\ inf'.fuel = fuel /\ PassedOver(fuel)
                /\ models[fuel].kind = "model")
             => LoadsOlderModel(fuel)]_vars

\* the second run has fitted coal and skipped oil for its 4 samples, and a
\* call made after the skip loaded the model the first run had saved for oil
C14_Witness ==
    /\ tr.run = 2 /\ tr.out = "cleared"
    /\ "coal" \in tr.trained /\ "oil" \in tr.skipped
    /\ models["oil"] = PriorModel("oil")
    /\ models["coal"].run = 2
    /\ inf.called /\ inf.fuel = "oil"
    /\ inf.passed_over
    /\ inf.file = PriorModel("oil")
    /\ ~inf.dummy /\ ~inf.raised

=============================================================================
